---- MODULE Spec2Model ----
(***************************************************************************)
(* Model of the `named` attribute macro (crate named): the attribute       *)
(* parser, the argument reconciler, the matcher generator, and the         *)
(* macro_rules expansion of the matchers it generates.                     *)
(*                                                                         *)
(* Identifiers of parameters are strings; BTreeSet<String> order is the    *)
(* order of NameOrder.  Expressions are atoms (records), but for the       *)
(* assignment `lhs = rhs`, whose tokens read as a pair; a message          *)
(* is the sequence of the string pieces that format!/concat! join; the     *)
(* backquote of the messages is written ' in the strings.                  *)
(***************************************************************************)
EXTENDS Integers, Sequences, FiniteSets, TLC

\* ------------------------------------------------------------------ bounds
\* Longest list of `name = expr` declarations inside defaults(...).
MaxCfg == 3
\* Longest list of `name = expr` pairs at a call site.
MaxPairs == 3
\* The compiler's recursion_limit: the expansions it does for one call before
\* it gives up (128 by default in rustc).
RecursionLimit == 6

\* ------------------------------------------------------------ identifiers
\* The identifiers of the model, in String (byte-wise) order.
NameOrder == <<"a", "b", "c", "d", "e">>
\* Identifiers a function signature may declare.
ParamNames == {"a", "b", "c"}
\* Identifiers a defaults(...) list may name.
AttrNames == {"a", "b", "c", "d", "e"}
\* Identifiers a call site may name.
CallNames == {"a", "b", "c", "d"}

Rank(n) == CHOOSE i \in 1..Len(NameOrder) : NameOrder[i] = n

\* <String as Ord>::lt, as BTreeSet uses it.
StrLess(x, y) == Rank(x) < Rank(y)

Range(s) == {s[i] : i \in 1..Len(s)}

RECURSIVE BTreeSetIter(_)
\* Iteration of a BTreeSet<String>: ascending order.
BTreeSetIter(S) ==
    IF S = {} THEN <<>>
    ELSE LET m == CHOOSE x \in S : \A y \in S : y = x \/ StrLess(x, y)
         IN  <<m>> \o BTreeSetIter(S \ {m})

RECURSIVE Join(_, _)
\* [String]::join(sep), as the sequence of joined pieces.
Join(names, sep) ==
    IF Len(names) = 0 THEN <<>>
    ELSE IF Len(names) = 1 THEN <<names[1]>>
    ELSE <<names[1], sep>> \o Join(Tail(names), sep)

\* ------------------------------------------------------------ expressions
\* An expression: a value written at a call site (n-th pair); the expression
\* of a default declaration (the n-th one written for the name) when it is
\* not an assignment; the right-hand side of a default declaration that is
\* written as an assignment `lhs = rhs`; or the assignment `name = e`, which
\* is what an :expr matcher reads in the tokens of a pair and what a default
\* written as an assignment is (`of` is the declared name a right-hand side
\* belongs to, "" for a value of the call site).
ValExpr(i) == [tag |-> "val", name |-> "", n |-> i, of |-> ""]
DefaultExpr(nm, i) == [tag |-> "default", name |-> nm, n |-> i, of |-> ""]
RhsExpr(nm, i) == [tag |-> "rhs", name |-> nm, n |-> i, of |-> ""]
AssignExpr(nm, e) == [tag |-> "assign", name |-> nm, n |-> e.n, of |-> e.name]
NoExpr == [tag |-> "", name |-> "", n |-> 0, of |-> ""]

\* The right-hand side of an assignment expression.
RhsOf(e) == IF e.of = "" THEN ValExpr(e.n) ELSE RhsExpr(e.of, e.n)

\* Option<T> is a sequence of length at most one.
None == <<>>
Some(x) == <<x>>

\* ------------------------------------------------------- attribute parser
\* A span: the location of the n-th default declaration, of the n-th fn
\* input, or the call site of the whole attribute.
SpanAttr(i) == [at |-> "default", i |-> i]
SpanArg(i) == [at |-> "input", i |-> i]
CallSite == [at |-> "call_site", i |-> 0]

\* Variant of IndexMapInsert that leaves the value of a key it already has.
IndexMapInsertKeepsFirst(map, k, v) ==
    IF \E i \in 1..Len(map) : map[i].key = k
    THEN map
    ELSE Append(map, [key |-> k, value |-> v])

\* IndexMap::insert: overwrite in place, or append.
IndexMapInsert(map, k, v) ==
    IF \E i \in 1..Len(map) : map[i].key = k
    THEN [i \in 1..Len(map) |-> IF map[i].key = k THEN [key |-> k, value |-> v] ELSE map[i]]
    ELSE Append(map, [key |-> k, value |-> v])

\* IndexMap::get
IndexMapGet(map, k) ==
    IF \E i \in 1..Len(map) : map[i].key = k
    THEN Some(map[CHOOSE i \in 1..Len(map) : map[i].key = k].value)
    ELSE None

IndexMapKeys(map) == [i \in 1..Len(map) |-> map[i].key]

RECURSIVE defaults_upto(_, _)
defaults_upto(items, n) ==
    IF n = 0 THEN <<>>
    ELSE IndexMapInsert(defaults_upto(items, n - 1), items[n].name,
                        [span |-> items[n].span, expr |-> items[n].value])

\* Attributes::defaults: the declarations in order, inserted into an IndexMap.
defaults(items) == defaults_upto(items, Len(items))

\* The parsed attribute of `#[named(defaults(n1 = e1, ...))]` for a list of
\* declared names: the i-th declaration has its own span, and its expression
\* is the k-th one written for its name.
ParseAttr(names) ==
    [i \in 1..Len(names) |->
        [name |-> names[i], span |-> SpanAttr(i),
         value |-> DefaultExpr(names[i],
                               Cardinality({j \in 1..i : names[j] = names[i]}))]]

\* The parsed attribute of `#[named(defaults(nm = lhs = rhs))]`: Default::parse
\* takes any syn::Expr as the value, an assignment too.
ParseAssignAttr(nm, lhs) ==
    <<[name |-> nm, span |-> SpanAttr(1), value |-> AssignExpr(lhs, RhsExpr(nm, 1))]>>

\* The expression the declarations give a name: that of its last declaration.
Declared(items, nm) ==
    IF \E i \in 1..Len(items) : items[i].name = nm
    THEN Some(items[CHOOSE i \in 1..Len(items) :
                       /\ items[i].name = nm
                       /\ \A j \in (i + 1)..Len(items) : items[j].name # nm].value)
    ELSE None

\* ------------------------------------------------------------- reconciler
\* FnArg: a typed parameter whose pattern is an identifier, a typed parameter
\* with another pattern, or a receiver.
IdentArg(nm) == [arg |-> "Typed", pat |-> "Ident", ident |-> nm]
PatternArg == [arg |-> "Typed", pat |-> "Tuple", ident |-> ""]
ReceiverArg == [arg |-> "Receiver", pat |-> "", ident |-> "self"]

NoError == [span |-> CallSite, message |-> <<>>]

ReceiverMessage == <<"'named' does not currently support functions which take 'self'.">>

\* Variant of FirstBadInput that lets every typed parameter pass, whatever
\* its pattern.
FirstBadInputReceiverOnly(inputs) ==
    IF \E i \in 1..Len(inputs) : inputs[i].arg = "Receiver"
    THEN CHOOSE i \in 1..Len(inputs) :
            /\ inputs[i].arg = "Receiver"
            /\ \A j \in 1..(i - 1) : inputs[j].arg = "Typed"
    ELSE 0

\* The first input that is not a plain identifier, 0 if there is none: the
\* map over the inputs is collected lazily and stops there.
FirstBadInput(inputs) ==
    IF \E i \in 1..Len(inputs) : inputs[i].arg = "Receiver" \/ inputs[i].pat # "Ident"
    THEN CHOOSE i \in 1..Len(inputs) :
            /\ inputs[i].arg = "Receiver" \/ inputs[i].pat # "Ident"
            /\ \A j \in 1..(i - 1) : inputs[j].arg = "Typed" /\ inputs[j].pat = "Ident"
    ELSE 0

\* Variant of extras that keeps the order of the declarations.
extras_unsorted(args, dflts) ==
    LET IsExtra(nm) == nm \notin Range(args)
    IN  SelectSeq(IndexMapKeys(dflts), IsExtra)

\* extras: the default names that are no parameter, in BTreeSet order.
extras(args, dflts) == BTreeSetIter(Range(IndexMapKeys(dflts)) \ Range(args))

\* The message of the Unrecognized-argument error.
ExtrasMessage(ex, fn_arg_names) ==
    LET extras_plural_suffix == IF Len(ex) = 1 THEN "" ELSE "s"
        extras_str == IF Len(ex) = 1 THEN <<"'", ex[1], "'">>
                      ELSE <<"[">> \o Join(ex, ", ") \o <<"]">>
    IN  <<"Unrecognized argument", extras_plural_suffix,
          " - attribute had argument", extras_plural_suffix, " ">>
        \o extras_str
        \o <<" but function takes argument",
             IF Len(fn_arg_names) = 1 THEN "" ELSE "s", ": [">>
        \o Join(fn_arg_names, ", ") \o <<"]">>

\* The span of the Unrecognized-argument error.
ExtrasSpan(ex, dflts) ==
    IF Len(ex) = 1 THEN IndexMapGet(dflts, ex[1])[1].span ELSE CallSite

\* Variant of ResolvedDefaults that pairs names and declarations by position.
ResolvedDefaultsByPosition(order, dflts) ==
    [i \in 1..Len(order) |->
        [key |-> order[i],
         value |-> IF i <= Len(dflts) THEN Some(dflts[i].value.expr) ELSE None]]

\* The table: one entry per fn_arg_names.into_iter() element.
ResolvedDefaults(order, dflts) ==
    [i \in 1..Len(order) |->
        [key |-> order[i],
         value |-> IF IndexMapGet(dflts, order[i]) = None THEN None
                   ELSE Some(IndexMapGet(dflts, order[i])[1].expr)]]

\* The tokens of the attribute, `kw(n1 = e1, ...)`: the keyword and the
\* declarations written after it. A declaration whose value is NoExpr is a
\* name written without `= expr`. No tokens at all parse as no declarations.
AttrTokens(kw, decls) == [kw |-> kw, decls |-> decls]
NoAttr == AttrTokens("", <<>>)

SpanKeyword == [at |-> "keyword", i |-> 0]
SpanAfterName(i) == [at |-> "after_name", i |-> i]
ExpectedDefaults == <<"expected 'defaults'">>
ExpectedEq == <<"expected '='">>

\* Default::parse fails at the first declaration that lacks its `=`.
FirstMalformed(decls) ==
    IF \E i \in 1..Len(decls) : decls[i].value = NoExpr
    THEN CHOOSE i \in 1..Len(decls) :
            /\ decls[i].value = NoExpr
            /\ \A j \in 1..(i - 1) : decls[j].value # NoExpr
    ELSE 0

\* Attributes::parse: the keyword must be `defaults` and every declaration
\* `name = expr`; otherwise the syn error of the first token that does not fit.
ParseAttributes(attr) ==
    IF attr.kw # "defaults"
    THEN [tag |-> "Err", items |-> <<>>,
          err |-> [span |-> SpanKeyword, message |-> ExpectedDefaults]]
    ELSE IF FirstMalformed(attr.decls) # 0
    THEN [tag |-> "Err", items |-> <<>>,
          err |-> [span |-> SpanAfterName(FirstMalformed(attr.decls)),
                   message |-> ExpectedEq]]
    ELSE [tag |-> "Ok", items |-> attr.decls, err |-> NoError]

\* The order in which the table is built.
TableOrder(args) == BTreeSetIter(Range(args))

\* reconcile: Ok(ArgDetails), Err(syn::Error) or a panic.
reconcile(inputs, attr) ==
    LET bad == FirstBadInput(inputs)
        args == [i \in 1..Len(inputs) |-> inputs[i].ident]
        parsed == ParseAttributes(attr)
        dflts == defaults(parsed.items)
        fn_arg_names == BTreeSetIter(Range(args))
        ex == extras(args, dflts)
    IN  IF bad # 0 /\ inputs[bad].arg = "Receiver"
        THEN [tag |-> "Err", args |-> <<>>, defaults |-> <<>>,
              err |-> [span |-> SpanArg(bad), message |-> ReceiverMessage]]
        ELSE IF bad # 0
        THEN [tag |-> "Panic", args |-> <<>>, defaults |-> <<>>, err |-> NoError]
        ELSE IF parsed.tag = "Err"
        THEN [tag |-> "Err", args |-> <<>>, defaults |-> <<>>, err |-> parsed.err]
        ELSE IF ex # <<>>
        THEN [tag |-> "Err", args |-> <<>>, defaults |-> <<>>,
              err |-> [span |-> ExtrasSpan(ex, dflts),
                       message |-> ExtrasMessage(ex, fn_arg_names)]]
        ELSE [tag |-> "Ok", args |-> args,
              defaults |-> ResolvedDefaults(TableOrder(args), dflts),
              err |-> NoError]

\* -------------------------------------------------------------- generator
\* Identifiers of items are sequences of characters.
\* format!("__{}", name) and format!("{}_inner", dunder_name)
DunderName(name) == <<"_", "_">> \o name
InnerName(dunder_name) == dunder_name \o <<"_", "i", "n", "n", "e", "r">>

\* macro_rules matchers, one per comma-separated segment of a pattern:
\*   $n:expr | n = $n:expr | $key:ident = $value:expr |
\*   $($keys:ident = $values:expr),+ | $($idents:ident = $exprs:expr),* |
\*   the empty segment in front of a leading comma.
MExpr(nm) == [m |-> "expr", name |-> nm]
MNamed(nm) == [m |-> "named", name |-> nm]
MPair == [m |-> "pair", name |-> ""]
MPairsPlus == [m |-> "pairs+", name |-> ""]
MPairsStar == [m |-> "pairs*", name |-> ""]
MEmpty == [m |-> "empty", name |-> ""]

\* macro_rules transcriber segments:
\*   $n | the tokens of an expression | $key = $value | $($keys = $values),+
TVar(nm) == [s |-> "var", name |-> nm, e |-> NoExpr]
TTokens(x) == [s |-> "tokens", name |-> "", e |-> x]
TPair == [s |-> "pair", name |-> "", e |-> NoExpr]
TPairs == [s |-> "pairs", name |-> "", e |-> NoExpr]

\* Right-hand sides: a call of a function, an invocation of a macro,
\* compile_error!(msg), compile_error!(concat!(.., stringify!($ident), ..)),
\* unimplemented!().
RhsCall(fn, tmpl) == [kind |-> "call", target |-> fn, tmpl |-> tmpl, msg |-> <<>>]
RhsMacro(mac, tmpl) == [kind |-> "macro", target |-> mac, tmpl |-> tmpl, msg |-> <<>>]
RhsError(msg) == [kind |-> "compile_error", target |-> <<>>, tmpl |-> <<>>, msg |-> msg]
RhsUnrecognized(expected) ==
    [kind |-> "unrecognized", target |-> <<>>, tmpl |-> <<>>, msg |-> expected]
RhsUnimplemented == [kind |-> "unimplemented", target |-> <<>>, tmpl |-> <<>>, msg |-> <<>>]

Branch(pat, rhs) == [pat |-> pat, rhs |-> rhs]

format_names(names) ==
    IF Len(names) = 1 THEN <<"'", names[1], "'">>
    ELSE <<"[">> \o Join(names, ", ") \o <<"]">>

report_missing(missing) ==
    LET maybe_s == IF Len(missing) = 1 THEN "" ELSE "s"
    IN  RhsError(<<"Must specify value", maybe_s, " for non-defaulted argument",
                   maybe_s, ": ">> \o format_names(missing))

\* $arg:expr for each of the first `completed` arguments.
match_exprs(args, completed) == [i \in 1..completed |-> MExpr(args[i])]

\* $arg for each of the first `completed` arguments.
already_parsed_exprs(args, completed) == [i \in 1..completed |-> TVar(args[i])]

\* defaults.iter().skip(completed)
remaining_defaults(dflts, completed) == SubSeq(dflts, completed + 1, Len(dflts))

\* Variant of missing_required that keeps only the first missing name.
missing_required_first(rd) ==
    LET IsNone(entry) == entry.value = None
        missing == SelectSeq(rd, IsNone)
    IN  IF missing = <<>> THEN <<>> ELSE <<missing[1].key>>

\* The names of the remaining table entries without a default.
missing_required(rd) ==
    LET IsNone(entry) == entry.value = None
        missing == SelectSeq(rd, IsNone)
    IN  [i \in 1..Len(missing) |-> missing[i].key]

\* "First n are set, use defaults for the rest."
TerminalBranch(args, dflts, dunder_name, completed) ==
    LET rd == remaining_defaults(dflts, completed)
        missing == missing_required(rd)
        rhs == IF missing # <<>> THEN report_missing(missing)
               ELSE RhsCall(dunder_name,
                            already_parsed_exprs(args, completed)
                            \o [i \in 1..Len(rd) |-> TTokens(rd[i].value[1])])
    IN  Branch(match_exprs(args, completed), rhs)

\* Variant of NextOnlyBranch that forwards the resolved expressions without
\* the value of the matched pair.
NextOnlyBranchDropsValue(args, inner_name, completed) ==
    LET next_missing_ident == args[completed + 1]
    IN  Branch(Append(match_exprs(args, completed), MNamed(next_missing_ident)),
               RhsMacro(inner_name, already_parsed_exprs(args, completed)))

\* "First n are set, next is n+1, no more after."
NextOnlyBranch(args, inner_name, completed) ==
    LET next_missing_ident == args[completed + 1]
    IN  Branch(Append(match_exprs(args, completed), MNamed(next_missing_ident)),
               RhsMacro(inner_name,
                        Append(already_parsed_exprs(args, completed),
                               TVar(next_missing_ident))))

\* Variant of NextMoreBranch that forwards the matched value without the
\* pairs that follow it.
NextMoreBranchDropsRest(args, inner_name, completed) ==
    LET next_missing_ident == args[completed + 1]
    IN  Branch(match_exprs(args, completed) \o <<MNamed(next_missing_ident), MPairsPlus>>,
               RhsMacro(inner_name,
                        Append(already_parsed_exprs(args, completed),
                               TVar(next_missing_ident))))

\* "Handle first n are set, next is n+1, more after."
NextMoreBranch(args, inner_name, completed) ==
    LET next_missing_ident == args[completed + 1]
    IN  Branch(match_exprs(args, completed) \o <<MNamed(next_missing_ident), MPairsPlus>>,
               RhsMacro(inner_name,
                        already_parsed_exprs(args, completed)
                        \o <<TVar(next_missing_ident), TPairs>>))

\* "Handle first n are set, next is not n+1, no more after."
OtherOnlyBranch(args, dflts, inner_name, completed) ==
    LET next == remaining_defaults(dflts, completed)[1]
        rhs == IF next.value # None
               THEN RhsMacro(inner_name,
                             already_parsed_exprs(args, completed)
                             \o <<TTokens(next.value[1]), TPair>>)
               ELSE report_missing(<<next.key>>)
    IN  Branch(Append(match_exprs(args, completed), MPair), rhs)

\* "Handle first n are set, next is not n+1, more after."
OtherMoreBranch(args, dflts, inner_name, completed) ==
    LET next == remaining_defaults(dflts, completed)[1]
        rhs == IF next.value # None
               THEN RhsMacro(inner_name,
                             already_parsed_exprs(args, completed)
                             \o <<TTokens(next.value[1]), TPairs>>)
               ELSE report_missing(<<next.key>>)
    IN  Branch(Append(match_exprs(args, completed), MPairsPlus), rhs)

\* The branches pushed by one iteration of `for completed in 0..=args.len()`.
BranchesFor(args, dflts, dunder_name, inner_name, completed) ==
    <<TerminalBranch(args, dflts, dunder_name, completed)>>
    \o (IF completed < Len(args)
        THEN <<NextOnlyBranch(args, inner_name, completed),
               NextMoreBranch(args, inner_name, completed),
               OtherOnlyBranch(args, dflts, inner_name, completed),
               OtherMoreBranch(args, dflts, inner_name, completed)>>
        ELSE <<>>)

RECURSIVE LoopBranchesReversed(_, _, _, _, _)
\* Variant of LoopBranches that pushes the iterations last to first.
LoopBranchesReversed(args, dflts, dunder_name, inner_name, completed) ==
    BranchesFor(args, dflts, dunder_name, inner_name, completed)
    \o (IF completed = 0 THEN <<>>
        ELSE LoopBranchesReversed(args, dflts, dunder_name, inner_name, completed - 1))

RECURSIVE LoopBranches(_, _, _, _, _)
\* The branches of iterations 0..completed, in order.
LoopBranches(args, dflts, dunder_name, inner_name, completed) ==
    (IF completed = 0 THEN <<>>
     ELSE LoopBranches(args, dflts, dunder_name, inner_name, completed - 1))
    \o BranchesFor(args, dflts, dunder_name, inner_name, completed)

\* (#match_exprs, ...: with no argument the pattern starts with the comma.
AllGivenPrefix(args) ==
    IF Len(args) = 0 THEN <<MEmpty>> ELSE match_exprs(args, Len(args))

\* "All args given, yet we have one more!" and "... more than one more!"
ExtraBranches(args) ==
    <<Branch(Append(AllGivenPrefix(args), MPair), RhsUnrecognized(format_names(args))),
      Branch(AllGivenPrefix(args) \o <<MPair, MPairsPlus>>,
             RhsUnrecognized(format_names(args)))>>

\* The branches of the inner (accumulator) macro.
InnerBranches(args, dflts, dunder_name, inner_name) ==
    LoopBranches(args, dflts, dunder_name, inner_name, Len(args)) \o ExtraBranches(args)

\* The branches of the public macro.
PublicBranches(args, dflts, dunder_name, inner_name) ==
    IF Len(args) = 0
    THEN <<Branch(<<>>, RhsCall(dunder_name, <<>>))>>
    ELSE LET first_name == args[1]
             first_default == dflts[1].value
         IN  <<Branch(<<MNamed(first_name)>>, RhsMacro(inner_name, <<TVar(first_name)>>)),
               Branch(<<MNamed(first_name), MPairsPlus>>,
                      RhsMacro(inner_name, <<TVar(first_name), TPairs>>)),
               Branch(<<MPair, MPairsPlus>>,
                      IF first_default # None
                      THEN RhsMacro(inner_name, <<TTokens(first_default[1]), TPair, TPairs>>)
                      ELSE report_missing(<<first_name>>)),
               Branch(<<MPair>>,
                      IF first_default # None
                      THEN RhsMacro(inner_name, <<TTokens(first_default[1]), TPair>>)
                      ELSE report_missing(<<first_name>>)),
               Branch(<<>>, RhsMacro(inner_name, <<>>))>>

\* Items of the emitted token stream.
FnItem(ident, inputs) ==
    [item |-> "fn", ident |-> ident, inputs |-> inputs, branches |-> <<>>, err |-> NoError]
MacroItem(ident, branches) ==
    [item |-> "macro_rules", ident |-> ident, inputs |-> <<>>, branches |-> branches,
     err |-> NoError]
ErrorItem(err) ==
    [item |-> "compile_error", ident |-> <<>>, inputs |-> <<>>, branches |-> <<>>,
     err |-> err]

\* Variant of FallbackMacro whose repetition needs at least one pair.
FallbackMacroOneOrMore(name) == MacroItem(name, <<Branch(<<MPairsPlus>>, RhsUnimplemented)>>)

\* The macro emitted when reconcile returns an error.
FallbackMacro(name) == MacroItem(name, <<Branch(<<MPairsStar>>, RhsUnimplemented)>>)

\* The token stream emitted when reconcile returns an error.
FallbackTokens(name, err) == <<FallbackMacro(name), ErrorItem(err)>>

\* The token stream emitted for reconciled details.
GeneratedTokens(name, inputs, details) ==
    LET dunder_name == DunderName(name)
        inner_name == InnerName(dunder_name)
    IN  <<FnItem(dunder_name, inputs),
          MacroItem(inner_name,
                    InnerBranches(details.args, details.defaults, dunder_name, inner_name)),
          MacroItem(name,
                    PublicBranches(details.args, details.defaults, dunder_name, inner_name))>>

\* named(attr, item): the emitted token stream, or a panic.
named(attr, item) ==
    LET r == reconcile(item.inputs, attr)
    IN  IF r.tag = "Panic" THEN [tag |-> "panic", ts |-> <<>>]
        ELSE IF r.tag = "Err" THEN [tag |-> "tokens", ts |-> FallbackTokens(item.ident, r.err)]
        ELSE [tag |-> "tokens", ts |-> GeneratedTokens(item.ident, item.inputs, r)]

\* ------------------------------------------------- macro_rules expansion
\* The comma-separated segments of a macro invocation's input: an expression
\* (captured earlier, or the tokens of a default), or `k = e`.
ExprItem(x) == [t |-> "expr", k |-> "", e |-> x]
PairItem(k, x) == [t |-> "pair", k |-> k, e |-> x]

\* The segment that the tokens of a default are when they are pasted into an
\* invocation: the tokens are not a captured expression, so those of a
\* default written `lhs = rhs` read as a pair.
RawSegment(e) ==
    IF e.tag = "assign" THEN PairItem(e.name, RhsOf(e)) ELSE ExprItem(e)

\* The expression a segment is as an argument of a function call.
ArgOf(seg) == IF seg.t = "pair" THEN AssignExpr(seg.k, seg.e) ELSE seg.e

\* Variant of ItemMatches in which `n = $n:expr` accepts any name.
ItemMatchesAnyName(matcher, it) ==
    CASE matcher.m = "expr" -> TRUE
      [] matcher.m = "named" -> it.t = "pair"
      [] matcher.m = "pair" -> it.t = "pair"
      [] OTHER -> FALSE

\* One matcher against one segment. An :expr matcher also parses `k = e`, as
\* an assignment expression.
ItemMatches(matcher, it) ==
    CASE matcher.m = "expr" -> TRUE
      [] matcher.m = "named" -> it.t = "pair" /\ it.k = matcher.name
      [] matcher.m = "pair" -> it.t = "pair"
      [] OTHER -> FALSE

\* The number of one-segment matchers of a pattern (all but a final repetition).
FixedLen(pat) ==
    IF Len(pat) > 0 /\ pat[Len(pat)].m \in {"pairs+", "pairs*"}
    THEN Len(pat) - 1 ELSE Len(pat)

\* A pattern against a whole input.
Matches(pat, input) ==
    LET fixed == FixedLen(pat)
    IN  /\ IF fixed = Len(pat) THEN Len(input) = fixed
           ELSE IF pat[Len(pat)].m = "pairs+" THEN Len(input) >= fixed + 1
           ELSE Len(input) >= fixed
        /\ \A i \in 1..fixed : ItemMatches(pat[i], input[i])
        /\ \A i \in (fixed + 1)..Len(input) : input[i].t = "pair"

\* The expression bound to $nm by a matching pattern.
BoundExpr(pat, input, nm) ==
    LET i == CHOOSE j \in 1..FixedLen(pat) :
                 pat[j].name = nm /\ pat[j].m \in {"expr", "named"}
    IN  IF pat[i].m = "expr" /\ input[i].t = "pair"
        THEN AssignExpr(input[i].k, input[i].e)
        ELSE input[i].e

\* The segment bound to `$key = $value` by a matching pattern.
BoundPair(pat, input) ==
    input[CHOOSE j \in 1..FixedLen(pat) : pat[j].m = "pair"]

\* The segments bound to the repetition of a matching pattern.
BoundPairs(pat, input) == SubSeq(input, FixedLen(pat) + 1, Len(input))

RECURSIVE Transcribe(_, _, _)
\* The segments a transcriber produces under the bindings of (pat, input).
Transcribe(tmpl, pat, input) ==
    IF tmpl = <<>> THEN <<>>
    ELSE LET h == tmpl[1]
             out == CASE h.s = "var" -> <<ExprItem(BoundExpr(pat, input, h.name))>>
                      [] h.s = "tokens" -> <<RawSegment(h.e)>>
                      [] h.s = "pair" -> <<BoundPair(pat, input)>>
                      [] OTHER -> BoundPairs(pat, input)
         IN  out \o Transcribe(Tail(tmpl), pat, input)

\* A pending macro invocation, and the outcome of an expansion.
Invocation(mac, input) == [mac |-> mac, input |-> input]
NoCall == Invocation(<<>>, <<>>)
NoResult == [kind |-> "", fn |-> <<>>, args |-> <<>>, msg |-> <<>>]
CallResult(fn, segs) ==
    [kind |-> "call", fn |-> fn, args |-> [i \in 1..Len(segs) |-> ArgOf(segs[i])],
     msg |-> <<>>]
ErrorResult(msg) == [kind |-> "error", fn |-> <<>>, args |-> <<>>, msg |-> msg]
UnimplementedResult == [kind |-> "unimplemented", fn |-> <<>>, args |-> <<>>, msg |-> <<>>]

\* The compiler's own errors.
NoRulesExpected == <<"no rules expected the token">>
CannotFindMacro == <<"cannot find macro in this scope">>
RecursionLimitReached == <<"recursion limit reached while expanding">>

\* The message of the Unrecognized-named-argument branches.
UnrecognizedMessage(ident, expected_names) ==
    <<"Unrecognized named argument - got value for argument '", ident,
      "' but only expected ">> \o expected_names

\* The macro_rules items of a token stream that define `mac`.
MacrosNamed(tokens, mac) ==
    {i \in 1..Len(tokens) : tokens[i].item = "macro_rules" /\ tokens[i].ident = mac}

\* The index of the first branch that matches, 0 if none does.
FirstMatch(branches, input) ==
    IF \E i \in 1..Len(branches) : Matches(branches[i].pat, input)
    THEN CHOOSE i \in 1..Len(branches) :
            /\ Matches(branches[i].pat, input)
            /\ \A j \in 1..(i - 1) : ~Matches(branches[j].pat, input)
    ELSE 0

\* Where the annotated function stands: among the items of a module or the
\* statements of a block, or among the items of an impl or trait block.
Places == {"module", "impl"}

\* The emitted items are put where the function stood. A macro_rules! item
\* among the items of an impl or trait block is rejected by the compiler and
\* defines no macro.
MacroDefinitionRejected(place) == place = "impl"

\* One expansion of an invocation: the next invocation, or an outcome.
ExpandOnce(place, tokens, c) ==
    IF MacroDefinitionRejected(place) \/ MacrosNamed(tokens, c.mac) = {}
    THEN [call |-> NoCall, result |-> ErrorResult(CannotFindMacro)]
    ELSE LET branches == tokens[CHOOSE i \in MacrosNamed(tokens, c.mac) : TRUE].branches
             b == FirstMatch(branches, c.input)
         IN  IF b = 0
             THEN [call |-> NoCall, result |-> ErrorResult(NoRulesExpected)]
             ELSE LET pat == branches[b].pat
                      rhs == branches[b].rhs
                      segs == Transcribe(rhs.tmpl, pat, c.input)
                  IN  CASE rhs.kind = "macro" ->
                              [call |-> Invocation(rhs.target, segs), result |-> NoResult]
                        [] rhs.kind = "call" ->
                              [call |-> NoCall, result |-> CallResult(rhs.target, segs)]
                        [] rhs.kind = "compile_error" ->
                              [call |-> NoCall, result |-> ErrorResult(rhs.msg)]
                        [] rhs.kind = "unrecognized" ->
                              [call |-> NoCall,
                               result |-> ErrorResult(
                                   UnrecognizedMessage(BoundPair(pat, c.input).k, rhs.msg))]
                        [] OTHER ->
                              [call |-> NoCall, result |-> UnimplementedResult]

\* ----------------------------------------------------------- state machine
VARIABLES
    item,     \* the annotated function handed to the attribute macro
    attr,     \* the attribute's tokens handed to the attribute macro
    pc,       \* "source", then "expanded" or "panicked"
    ts,       \* the token stream the attribute macro returned
    details,  \* what reconcile returned to the attribute macro
    decl,     \* the parameters and declared defaults the matchers were generated from
    call,     \* the macro invocation being expanded
    pairs,    \* the names of the pairs written at the call site
    prev,     \* the invocation that the last expansion expanded
    steps,    \* macro expansions done for the call
    result    \* the outcome of the call

vars == <<item, attr, pc, ts, details, decl, call, prev, pairs, steps, result>>

\* The name of the annotated function.
FnName == <<"f", "o", "o">>

SeqsUpTo(S, n) == UNION {[1..k -> S] : k \in 0..n}

\* Signatures: distinct identifiers, patterns anywhere, a receiver first.
FnArgs == {IdentArg(nm) : nm \in ParamNames} \cup {PatternArg, ReceiverArg}
Signatures ==
    {sig \in SeqsUpTo(FnArgs, Cardinality(ParamNames)) :
        /\ \A i, j \in 1..Len(sig) :
              (i # j /\ sig[i].pat = "Ident") => sig[i] # sig[j]
        /\ \A i \in 2..Len(sig) : sig[i].arg # "Receiver"}

\* Identifiers that the left-hand side of a default written as an assignment
\* may be, and the attributes with one such default.
AssignTargets == {"b"}
AssignAttrs == {ParseAssignAttr(nm, lhs) : nm \in ParamNames, lhs \in AssignTargets}

\* Attributes that do not parse: another keyword, or a declaration without
\* its `= expr` (alone, before or after a well-formed one).
MalformedNames == {"a", "d"}
Malformed(decls, i) == [decls EXCEPT ![i].value = NoExpr]
MalformedAttrs ==
    {AttrTokens("foo", <<>>)}
    \cup UNION {{AttrTokens("defaults", Malformed(ParseAttr(names), i)) :
                    i \in 1..Len(names)} :
                names \in SeqsUpTo(MalformedNames, 2) \ {<<>>}}

\* Signatures of functions annotated inside an impl or trait block.
ImplSignatures == {sig \in Signatures : Len(sig) <= 1}

Consumed(place) == [ident |-> <<>>, inputs |-> <<>>, place |-> place]
NoDetails == [tag |-> "", args |-> <<>>, defaults |-> <<>>, err |-> NoError]
NoDecl == [args |-> <<>>, D |-> [nm \in AttrNames |-> None]]

Init ==
    /\ item \in {[ident |-> FnName, inputs |-> sig, place |-> "module"] :
                    sig \in Signatures}
                \cup {[ident |-> FnName, inputs |-> sig, place |-> "impl"] :
                        sig \in ImplSignatures}
    /\ attr \in {AttrTokens("defaults", decls) :
                    decls \in {ParseAttr(names) : names \in SeqsUpTo(AttrNames, MaxCfg)}
                              \cup AssignAttrs}
                \cup MalformedAttrs
    /\ pc = "source"
    /\ ts = <<>>
    /\ details = NoDetails
    /\ decl = NoDecl
    /\ call = NoCall
    /\ prev = NoCall
    /\ pairs = <<>>
    /\ steps = 0
    /\ result = NoResult

\* The compiler runs the attribute macro on the annotated function.
Named ==
    /\ pc = "source"
    /\ LET out == named(attr, item)
           r == reconcile(item.inputs, attr)
       IN  /\ pc' = IF out.tag = "panic" THEN "panicked" ELSE "expanded"
           /\ ts' = out.ts
           /\ details' = r
           /\ decl' = IF r.tag = "Ok"
                     THEN [args |-> r.args, D |-> [nm \in AttrNames |-> Declared(attr.decls, nm)]]
                     ELSE NoDecl
    /\ item' = Consumed(item.place)
    /\ attr' = NoAttr
    /\ UNCHANGED <<call, prev, pairs, steps, result>>

\* The pairs of a call site that names `names`: the i-th value is its own.
CallPairs(names) == [i \in 1..Len(names) |-> PairItem(names[i], ValExpr(i))]

\* A call site invokes the macro named after the function.
Invoke(names) ==
    /\ pc \in {"expanded", "panicked"}
    /\ call = NoCall
    /\ result = NoResult
    /\ call' = Invocation(FnName, CallPairs(names))
    /\ pairs' = names
    /\ UNCHANGED <<item, attr, pc, ts, details, decl, prev, steps, result>>

\* The compiler expands the pending invocation once.
Expand ==
    /\ call # NoCall
    /\ LET x == IF steps < RecursionLimit
                THEN ExpandOnce(item.place, ts, call)
                ELSE [call |-> NoCall, result |-> ErrorResult(RecursionLimitReached)]
       IN  /\ call' = x.call
           /\ result' = x.result
    /\ prev' = call
    /\ steps' = steps + 1
    /\ UNCHANGED <<item, attr, pc, ts, details, decl, pairs>>

Next ==
    \/ Named
    \/ \E names \in SeqsUpTo(CallNames, MaxPairs) : Invoke(names)
    \/ Expand

Spec == Init /\ [][Next]_vars

\* ------------------------------------------------------------ properties
\* The matchers were generated (reconcile returned a table).
Generated == details.tag = "Ok"

\* The expansion of the call has ended.
Finished == result # NoResult

\* The annotated function stands where a macro may be defined: at module
\* level or in a block, not among the items of an impl or trait block.
MacrosInScope == item.place = "module"

\* The call has ended at once because no macro of that name is defined.
MacroNotFound == result = ErrorResult(CannotFindMacro) /\ steps = 1

\* The position of a name among the declared parameters, 0 if it is none.
Pos(nm) ==
    IF \E i \in 1..Len(decl.args) : decl.args[i] = nm
    THEN CHOOSE i \in 1..Len(decl.args) : decl.args[i] = nm
    ELSE 0

\* The parameter has a declared default.
HasDefault(nm) == decl.D[nm] # None

\* The names of the call follow the declaration order, each at most once.
InDeclarationOrder ==
    /\ \A i \in 1..Len(pairs) : Pos(pairs[i]) # 0
    /\ \A i, j \in 1..Len(pairs) : i < j => Pos(pairs[i]) < Pos(pairs[j])

\* The argument the original function should get at position i: the value
\* the call gives the i-th parameter, else that parameter's declared default.
ExpectedArg(i) ==
    LET nm == decl.args[i]
    IN  IF \E j \in 1..Len(pairs) : pairs[j] = nm
        THEN ValExpr(CHOOSE j \in 1..Len(pairs) : pairs[j] = nm)
        ELSE IF HasDefault(nm) THEN decl.D[nm][1] ELSE NoExpr

\* The outcome is a call of the renamed function with these arguments.
CallsRenamed(exprs) ==
    result = [kind |-> "call", fn |-> DunderName(FnName), args |-> exprs, msg |-> <<>>]

\* The outcome is the generator's missing-argument error.
MissingError ==
    /\ result.kind = "error"
    /\ Len(result.msg) > 5
    /\ result.msg[1] = "Must specify value"
    /\ result.msg[3] = " for non-defaulted argument"

\* The names a missing-argument error lists.
MissingNames == {result.msg[i] : i \in 6..Len(result.msg)} \cap ParamNames

C2_SkippedFilledFromOwnDefault ==
    (Generated /\ Finished /\ InDeclarationOrder)
        => /\ result.kind = "call"
                <=> \A nm \in Range(decl.args) \ Range(pairs) : HasDefault(nm)
           /\ result.kind = "call"
                => CallsRenamed([i \in 1..Len(decl.args) |-> ExpectedArg(i)])

\* The first declared parameter without a default.
FirstWithoutDefault ==
    decl.args[CHOOSE i \in 1..Len(decl.args) :
                 /\ ~HasDefault(decl.args[i])
                 /\ \A j \in 1..(i - 1) : HasDefault(decl.args[j])]

C4_UndeclaredNameFails ==
    (Generated /\ Finished /\ \E i \in 1..Len(pairs) : Pos(pairs[i]) = 0)
        => result.kind = "error"

\* C4 witness: fn(a, b, c) with every default declared, called with an
\* undeclared name between two declared ones, has ended in an error.
C4_Witness ==
    /\ Generated /\ Finished
    /\ decl.args = <<"a", "b", "c">>
    /\ \A nm \in Range(decl.args) : HasDefault(nm)
    /\ pairs = <<"a", "d", "c">>
    /\ result.kind = "error"

\* The values of the call site among the arguments of the final call.
SuppliedIn(exprs) ==
    LET IsVal(x) == x.tag = "val"
    IN  SelectSeq(exprs, IsVal)

\* C5: a call in which a name is followed later by an earlier-declared
\* parameter, or by the same name, ends in an error even when every parameter
\* has a default; and a call that succeeds passes the supplied values in the
\* order they were written (the pairs are never reordered).
C5_OrderIsEnforced ==
    (Generated /\ Finished)
        => /\ (\E i, j \in 1..Len(pairs) :
                  i < j /\ Pos(pairs[i]) # 0 /\ Pos(pairs[j]) # 0
                  /\ Pos(pairs[j]) <= Pos(pairs[i]))
                => result.kind = "error"
           /\ result.kind = "call"
                => SuppliedIn(result.args) = [i \in 1..Len(pairs) |-> ValExpr(i)]

\* C5 witness: fn(a, b, c) with every default declared, called as (c, a), has
\* ended in an error.
C5_Witness ==
    /\ Generated /\ Finished
    /\ decl.args = <<"a", "b", "c">>
    /\ \A nm \in Range(decl.args) : HasDefault(nm)
    /\ pairs = <<"c", "a">>
    /\ result.kind = "error"

\* C6: the resolved table lists the parameters in declaration order: its
\* i-th entry is keyed by the i-th declared parameter and carries that
\* parameter's declared default (or none), and its keys are exactly the
\* declared parameters.
C6_TableInDeclarationOrder ==
    Generated
        => /\ Len(details.defaults) = Len(details.args)
           /\ \A i \in 1..Len(details.args) :
                 /\ details.defaults[i].key = details.args[i]
                 /\ details.defaults[i].value = decl.D[details.args[i]]
           /\ {details.defaults[i].key : i \in 1..Len(details.defaults)}
                 = Range(details.args)

\* The signature of plain identifier parameters with these names.
IdentSignature(names) == [i \in 1..Len(names) |-> IdentArg(names[i])]

\* The names with a declared default, and the orders they can be declared in.
DeclaredNames == {nm \in AttrNames : HasDefault(nm)}
DeclarationOrders ==
    {q \in [1..Cardinality(DeclaredNames) -> DeclaredNames] :
        \A i, j \in 1..Len(q) : i # j => q[i] # q[j]}

\* The declared defaults (each name once), declared in the order q.
Redeclared(q) ==
    [i \in 1..Len(q) |->
        [name |-> q[i], span |-> SpanAttr(i), value |-> decl.D[q[i]][1]]]

\* C7: the order of the default declarations does not matter: declaring the
\* same defaults (each name once) in any order yields the table, and the
\* generated items, that the attribute macro produced.
C7_DeclarationOrderIrrelevant ==
    (Generated /\ call = NoCall /\ ~Finished
     /\ \A nm \in DeclaredNames : decl.D[nm][1].n = 1)
        => \A q \in DeclarationOrders :
              LET r == reconcile(IdentSignature(decl.args),
                                 AttrTokens("defaults", Redeclared(q)))
                  out == named(AttrTokens("defaults", Redeclared(q)),
                               [ident |-> FnName, inputs |-> IdentSignature(decl.args),
                                place |-> item.place])
              IN  /\ r.tag = "Ok"
                  /\ r.args = details.args
                  /\ r.defaults = details.defaults
                  /\ out.ts = ts

\* C7 witness: matchers generated for fn(a, b, c) with three declared
\* defaults, which can be declared in six orders.
C7_Witness ==
    /\ Generated /\ call = NoCall /\ ~Finished
    /\ decl.args = <<"a", "b", "c">>
    /\ DeclaredNames = {"a", "b", "c"}
    /\ \A nm \in DeclaredNames : decl.D[nm][1].n = 1

\* The names an Unrecognized-argument message lists as extras: the pieces
\* between "attribute had argument.. " and " but function takes argument".
ListedExtras(msg) ==
    LET IsName(x) == x \in AttrNames
        stop == CHOOSE i \in 1..Len(msg) : msg[i] = " but function takes argument"
    IN  SelectSeq(SubSeq(msg, 6, stop - 1), IsName)

\* The compile_error items of a token stream.
ErrorItems(tokens) == {i \in 1..Len(tokens) : tokens[i].item = "compile_error"}

\* What C8 says of one run of the attribute macro: reconcile fails iff the
\* declarations name a non-parameter; then there is one diagnostic and no
\* table, the diagnostic lists all extras in ascending order, in the singular
\* at that declaration when there is one extra, in the plural at the call
\* site when there are several.
ExtrasVerdict(inputs, items, d, tokens) ==
    LET X == {items[i].name : i \in 1..Len(items)}
                \ {inputs[i].ident : i \in 1..Len(inputs)}
        listed == ListedExtras(d.err.message)
    IN  /\ d.tag # "Ok" <=> X # {}
        /\ d.tag # "Ok"
              => /\ d.tag = "Err"
                 /\ d.defaults = <<>>
                 /\ Cardinality(ErrorItems(tokens)) = 1
                 /\ \A i \in ErrorItems(tokens) : tokens[i].err = d.err
                 /\ d.err.message[1] = "Unrecognized argument"
                 /\ Range(listed) = X
                 /\ \A i, j \in 1..Len(listed) : i < j => StrLess(listed[i], listed[j])
                 /\ IF Cardinality(X) = 1
                    THEN /\ d.err.message[2] = ""
                         /\ d.err.span.at = "default"
                         /\ items[d.err.span.i].name \in X
                    ELSE /\ d.err.message[2] = "s"
                         /\ d.err.span = CallSite

\* The attribute is written as the grammar asks: `defaults`, then declarations
\* that each have a name, `=` and an expression.
WellFormed(tokens) ==
    /\ tokens.kw = "defaults"
    /\ \A i \in 1..Len(tokens.decls) : tokens.decls[i].value # NoExpr

\* Every input of the signature is a plain identifier parameter.
AllIdents(inputs) ==
    \A i \in 1..Len(inputs) : inputs[i].arg = "Typed" /\ inputs[i].pat = "Ident"

\* C8 as stated: for every annotated function the verdict above holds.
C8_AsStated ==
    [][(pc = "source" /\ pc' # "source")
          => ExtrasVerdict(item.inputs, attr.decls, details', ts')]_vars

\* C8 amended: for every annotated function whose parameters are all plain
\* identifiers and whose attribute is well formed the verdict above holds (a
\* receiver makes reconcile fail with its own diagnostic, another pattern makes
\* it panic, an attribute that does not parse makes it fail with the parse
\* error).
C8_ExtrasDiagnostic ==
    [][(pc = "source" /\ pc' # "source" /\ AllIdents(item.inputs) /\ WellFormed(attr))
          => ExtrasVerdict(item.inputs, attr.decls, details', ts')]_vars

\* C8 witness: reconcile has failed with the plural diagnostic, at the call
\* site, listing d then e.
C8_Witness ==
    /\ pc = "expanded"
    /\ details.tag = "Err"
    /\ details.err.span = CallSite
    /\ ListedExtras(details.err.message) = <<"d", "e">>
    /\ details.err.message[2] = "s"

\* C9 as stated: when reconcile returns an error, a macro named after the
\* function is emitted without the renamed function or the accumulator, and
\* every call of it ends in the stored diagnostic.
C9_AsStated ==
    details.tag = "Err"
        => /\ MacrosNamed(ts, FnName) # {}
           /\ \A i \in 1..Len(ts) : ts[i].item # "fn"
           /\ MacrosNamed(ts, InnerName(DunderName(FnName))) = {}
           /\ Finished => result = ErrorResult(details.err.message)

\* C9 amended: when reconcile returns an error (extras, a receiver or an
\* attribute that does not parse), the emitted items are a macro named after
\* the function and the diagnostic, once; no renamed function and no
\* accumulator is emitted. Where a macro may be defined, the macro takes any
\* list of pairs, also none, and every call of it expands to unimplemented!()
\* with no diagnostic of its own, and no call finds the macro missing; inside
\* an impl or trait block every call finds the macro missing.
C9_FallbackMacro ==
    details.tag = "Err"
        => /\ Len(ts) = 2
           /\ ts[1].item = "macro_rules" /\ ts[1].ident = FnName
           /\ ts[2] = ErrorItem(details.err)
           /\ \A i \in 1..Len(ts) : ts[i].item # "fn"
           /\ MacrosNamed(ts, InnerName(DunderName(FnName))) = {}
           /\ Finished => IF MacrosInScope
                          THEN result = UnimplementedResult /\ steps = 1
                          ELSE MacroNotFound

\* C9 witness: a call with no pairs of the macro emitted after an
\* Unrecognized-argument error has expanded to unimplemented!().
C9_Witness ==
    /\ details.tag = "Err"
    /\ details.err.message[1] = "Unrecognized argument"
    /\ Finished /\ pairs = <<>>
    /\ result = UnimplementedResult

\* C10: in the public matcher, a call whose first name is not parameter 0 is
\* accepted only if parameter 0 has a default; then the accumulator is
\* invoked with parameter 0's own default followed by all the pairs of the
\* call, and otherwise the call ends in the missing-argument error naming
\* parameter 0.
C10_FirstPairMismatch ==
    (Generated /\ steps = 1 /\ Len(decl.args) > 0
     /\ Len(pairs) > 0 /\ pairs[1] # decl.args[1])
        => IF HasDefault(decl.args[1])
           THEN /\ ~Finished
                /\ call = Invocation(InnerName(DunderName(FnName)),
                                     <<ExprItem(decl.D[decl.args[1]][1])>>
                                     \o CallPairs(pairs))
           ELSE /\ call = NoCall
                /\ MissingError
                /\ MissingNames = {decl.args[1]}


\* ------------------------------------------- the accumulator's states
\* The accumulator macro of the annotated function.
InnerMacro == InnerName(DunderName(FnName))

\* The number of leading expression segments of an invocation: the state k.
RECURSIVE LeadingExprs(_)
LeadingExprs(input) ==
    IF input = <<>> \/ input[1].t # "expr" THEN 0
    ELSE 1 + LeadingExprs(Tail(input))

\* The state of an invocation, its resolved expressions, its pending rest.
StateOf(c) == LeadingExprs(c.input)
ResolvedOf(c) == [i \in 1..StateOf(c) |-> c.input[i].e]
PendingOf(c) == SubSeq(c.input, StateOf(c) + 1, Len(c.input))

\* The pairs of the call that an invocation no longer carries.
ConsumedBy(c) == Len(pairs) - Len(PendingOf(c))

\* C11: in every accumulator invocation reached from a public call, the k
\* leading expressions are the resolved expressions (supplied value or own
\* default) of the first k declared parameters in declaration order, the rest
\* of the input is the unconsumed tail of the call's pairs, and an accumulator
\* invocation that follows another one is one state further.
C11_AccumulatorState ==
    (Generated /\ call.mac = InnerMacro)
        => /\ StateOf(call) <= Len(decl.args)
           /\ ConsumedBy(call) >= 0
           /\ PendingOf(call)
                = SubSeq(CallPairs(pairs), ConsumedBy(call) + 1, Len(pairs))
           /\ \A i \in 1..StateOf(call) :
                 LET e == ResolvedOf(call)[i]
                     nm == decl.args[i]
                 IN  \/ \E j \in 1..ConsumedBy(call) :
                            pairs[j] = nm /\ e = ValExpr(j)
                     \/ HasDefault(nm) /\ e = decl.D[nm][1]
           /\ prev.mac = InnerMacro => StateOf(call) = StateOf(prev) + 1

\* The declared parameter an invocation at state k < N resolves next, and the
\* name of the first pair it still carries.
NextParam(c) == decl.args[StateOf(c) + 1]
NextPairName(c) == PendingOf(c)[1].k

\* The accumulator was expanded at a state k < N whose next pair names
\* another parameter than parameter k+1.
AccumulatorMismatch ==
    /\ Generated
    /\ prev.mac = InnerMacro
    /\ StateOf(prev) < Len(decl.args)
    /\ PendingOf(prev) # <<>>
    /\ NextPairName(prev) # NextParam(prev)

\* C12: when the accumulator, at a state k < N, meets a pair that does not
\* name parameter k+1 and that parameter has no default, the call ends in the
\* missing-argument error naming exactly parameter k+1.
C12_MismatchWithoutDefault ==
    (AccumulatorMismatch /\ ~HasDefault(NextParam(prev)))
        => MissingError /\ MissingNames = {NextParam(prev)}

\* A matcher (public or accumulator) was expanded at a state k < N whose next
\* pair names another parameter than parameter k+1, and expansion went on.
DefaultSynthesized ==
    /\ Generated
    /\ prev # NoCall /\ call # NoCall
    /\ StateOf(prev) < Len(decl.args)
    /\ PendingOf(prev) # <<>>
    /\ NextPairName(prev) # NextParam(prev)

\* C13: when a default is synthesized for position k+1 because the next pair
\* does not name it (in the accumulator or the public matcher), the next
\* invocation is the accumulator at state k+1: the k resolved expressions and
\* the whole list of pending pairs, the triggering pair included, are carried
\* over unchanged and one default expression is added between them.
C13_DefaultStepFrame ==
    DefaultSynthesized
        => /\ call.mac = InnerMacro
           /\ StateOf(call) = StateOf(prev) + 1
           /\ SubSeq(ResolvedOf(call), 1, StateOf(prev)) = ResolvedOf(prev)
           /\ ResolvedOf(call)[StateOf(call)].tag = "default"
           /\ PendingOf(call) = PendingOf(prev)

\* The accumulator was expanded at a state k with no pair left.
TerminalStep == Generated /\ prev.mac = InnerMacro /\ PendingOf(prev) = <<>>

\* C14: the accumulator at state k with no pair left calls the renamed
\* function with the k resolved expressions followed by the own defaults of
\* parameters k+1..N in parameter order; if some of those parameters has no
\* default it fails instead, with one error that lists exactly the parameters
\* at positions k+1..N without a default (never a resolved one).
C14_TerminalStep ==
    TerminalStep
        => LET k == StateOf(prev)
               lacking == {decl.args[i] :
                              i \in {j \in (k + 1)..Len(decl.args) :
                                         ~HasDefault(decl.args[j])}}
               filled == [i \in 1..Len(decl.args) |->
                             IF i <= k THEN ResolvedOf(prev)[i]
                             ELSE decl.D[decl.args[i]][1]]
           IN  IF lacking = {}
               THEN CallsRenamed(filled)
               ELSE MissingError /\ MissingNames = lacking

\* A matcher was expanded at the fully resolved state k = N with at least one
\* pair left: the accumulator, or for N = 0 the public matcher itself.
ExtraPairStep ==
    /\ Generated
    /\ prev # NoCall
    /\ StateOf(prev) = Len(decl.args)
    /\ PendingOf(prev) # <<>>

\* C15: at the fully resolved state k = N, for every N (N = 0 included), one
\* or several further pairs end the call in the Unrecognized-named-argument
\* error that names the first remaining identifier and lists all N expected
\* names.
C15_ExtraPairs ==
    ExtraPairStep
        => result = ErrorResult(UnrecognizedMessage(NextPairName(prev),
                                                    format_names(decl.args)))

\* A matcher (public or accumulator), defined where the function stands, was
\* expanded at a state k < N whose next pair names parameter k+1.
NamedStep ==
    /\ Generated
    /\ MacrosInScope
    /\ prev # NoCall
    /\ StateOf(prev) < Len(decl.args)
    /\ PendingOf(prev) # <<>>
    /\ NextPairName(prev) = NextParam(prev)

\* C16: at every state k < N a pair that names parameter k+1 leads to the
\* accumulator at state k+1 with that pair's value appended to the resolved
\* expressions and the pairs after it unchanged, by the same rule whether the
\* pair is the last one ("exactly this one more pair") or is followed by
\* others ("this pair plus others").
C16_BranchShapesAgree ==
    NamedStep
        => call = Invocation(InnerMacro,
                             SubSeq(prev.input, 1, StateOf(prev))
                             \o <<ExprItem(PendingOf(prev)[1].e)>>
                             \o Tail(PendingOf(prev)))

\* C16 witness: a call whose first pair was handled by the "plus others"
\* shape and whose second pair, the last one, by the "exactly one more" shape.
C16_Witness ==
    /\ NamedStep
    /\ Len(pairs) = 2
    /\ prev.mac = InnerMacro
    /\ StateOf(prev) = 1 /\ Len(PendingOf(prev)) = 1
    /\ pairs[1] = decl.args[1]
    /\ StateOf(call) = 2 /\ PendingOf(call) = <<>>

\* The attribute macro runs on a signature with an input that is not a plain
\* identifier parameter.
RejectsSignature == pc = "source" /\ pc' # "source" /\ ~AllIdents(item.inputs)

\* The position of the first input of a signature that is not a plain
\* identifier parameter.
FirstOffending(inputs) ==
    CHOOSE i \in 1..Len(inputs) :
        /\ ~AllIdents(<<inputs[i]>>)
        /\ AllIdents(SubSeq(inputs, 1, i - 1))

\* The run was an abort: no table, no diagnostic, nothing emitted.
Aborted(p, d, tokens) ==
    /\ p = "panicked"
    /\ d = [tag |-> "Panic", args |-> <<>>, defaults |-> <<>>, err |-> NoError]
    /\ tokens = <<>>

\* The run ended in the receiver diagnostic located at input i: no table,
\* and the emitted items are the macro named after the function and that
\* diagnostic, without a renamed function or an accumulator.
ReceiverDiagnosed(p, d, tokens, i) ==
    /\ p = "expanded"
    /\ d = [tag |-> "Err", args |-> <<>>, defaults |-> <<>>,
            err |-> [span |-> SpanArg(i), message |-> ReceiverMessage]]
    /\ Len(tokens) = 2
    /\ tokens[1].item = "macro_rules" /\ tokens[1].ident = FnName
    /\ tokens[2] = ErrorItem(d.err)

\* C17 as stated: a signature with a receiver or a non-identifier pattern is
\* rejected by an abort, not a diagnostic: no table is built, the attribute is
\* not examined and nothing at all is emitted.
C17_AsStated ==
    [][RejectsSignature => Aborted(pc', details', ts')]_vars

\* C17 amended: a signature whose first offending input is a non-identifier
\* pattern is rejected by an abort with nothing emitted; one whose first
\* offending input is a receiver is rejected with the located receiver
\* diagnostic, after which the same-named macro and the diagnostic are
\* emitted. In both cases no table is built and the outcome is the same
\* whatever the attribute declares.
C17_BadSignature ==
    [][RejectsSignature
          => LET bad == FirstOffending(item.inputs)
             IN  IF item.inputs[bad].arg = "Receiver"
                 THEN ReceiverDiagnosed(pc', details', ts', bad)
                 ELSE Aborted(pc', details', ts')]_vars

\* C17 witness: the attribute macro has aborted on a signature with a
\* non-identifier pattern.
C17_Witness == pc = "panicked" /\ Aborted(pc, details, ts)

\* ----------------------------------- several annotated functions in a scope
\* The most annotated functions in one scope.
MaxFns == 2

\* Function names: a base name, possibly behind underscores and possibly
\* ending in _inner.
NamePrefixes == {<<>>, <<"_", "_">>, <<"_", "_", "_", "_">>}
NameBases == {<<"f", "o", "o">>, <<"b", "a", "r">>}
NameSuffixes == {<<>>, <<"_", "i", "n", "n", "e", "r">>}
FnNames == {p \o b \o s : p \in NamePrefixes, b \in NameBases, s \in NameSuffixes}

\* The scope is empty: no function has been annotated yet.
InitNames ==
    /\ item = Consumed("module")
    /\ attr = NoAttr
    /\ pc = "expanded"
    /\ ts = <<>>
    /\ details = NoDetails
    /\ decl = NoDecl
    /\ call = NoCall
    /\ prev = NoCall
    /\ pairs = <<>>
    /\ steps = 0
    /\ result = NoResult

\* The names of the functions annotated so far: each has emitted its renamed
\* function.
Annotated == {name \in FnNames : \E i \in 1..Len(ts) :
                 ts[i].item = "fn" /\ ts[i].ident = DunderName(name)}

\* #[named] on one more function `fn name(a: _)` of the scope: its items are
\* emitted after those of the functions annotated before.
NamedInScope(name) ==
    /\ Cardinality(Annotated) < MaxFns
    /\ name \notin Annotated
    /\ ts' = ts \o named(AttrTokens("defaults", <<>>),
                         [ident |-> name, inputs |-> <<IdentArg("a")>>,
                          place |-> "module"]).ts
    /\ UNCHANGED <<item, attr, pc, details, decl, call, prev, pairs, steps, result>>

NextNames == \E name \in FnNames : NamedInScope(name)

SpecNames == InitNames /\ [][NextNames]_vars

\* C18: the names derived for any two distinct (function name, role) pairs,
\* the roles being renamed function, accumulator and public matcher, differ:
\* no two items emitted for the annotated functions of a scope have the same
\* name.
C18_NamesDistinct ==
    \A i, j \in 1..Len(ts) : i # j => ts[i].ident # ts[j].ident

\* The first declaration of a name among the declared defaults.
FirstDeclaration(items, nm) ==
    CHOOSE i \in 1..Len(items) :
        /\ items[i].name = nm
        /\ \A j \in 1..(i - 1) : items[j].name # nm

\* The default expressions among the expressions an expansion has produced:
\* those of the pending invocation and those of the final call.
DefaultsFilledIn ==
    {call.input[i].e : i \in {j \in 1..Len(call.input) : call.input[j].t = "expr"}}
        \cup {result.args[i] : i \in 1..Len(result.args)}

\* C19: the mapping built from the declared defaults has, for a name declared
\* several times, a single entry at the position where the name was first
\* seen, holding the last declared expression; the table holds that last
\* expression and it is the one used wherever the parameter's default is
\* filled in.
C19_DuplicateDefaults ==
    /\ (pc = "source" /\ WellFormed(attr))
          => LET map == defaults(attr.decls)
             IN  /\ {map[p].key : p \in 1..Len(map)}
                        = {attr.decls[i].name : i \in 1..Len(attr.decls)}
                 /\ \A p, q \in 1..Len(map) :
                        p < q => FirstDeclaration(attr.decls, map[p].key)
                                    < FirstDeclaration(attr.decls, map[q].key)
                 /\ \A p \in 1..Len(map) :
                        Some(map[p].value.expr) = Declared(attr.decls, map[p].key)
    /\ Generated
          => /\ \A i \in 1..Len(details.defaults) :
                    details.defaults[i].value = decl.D[details.defaults[i].key]
             /\ \A e \in DefaultsFilledIn :
                    /\ e.tag = "default" => Some(e) = decl.D[e.name]
                    /\ (e.tag = "assign" /\ e.of # "") => Some(e) = decl.D[e.of]

\* C19 witness: a call has ended in a call of the function with the default
\* of a parameter whose default was declared three times: the third
\* expression.
C19_Witness ==
    /\ Generated /\ Finished
    /\ result.kind = "call"
    /\ \E i \in 1..Len(result.args) :
          result.args[i].tag = "default" /\ result.args[i].n = 3

\* The accumulator expansions among the expansions done for the call: all
\* but the first, which is the public matcher's.
AccumulatorSteps == IF steps = 0 THEN 0 ELSE steps - 1

\* C20: every call of the public matcher ends: each accumulator invocation
\* that follows another has exactly one more resolved leading expression and
\* never more than N, expanding a pending invocation gives either the next
\* invocation or an outcome, the accumulator is expanded at most N times plus
\* the terminal one, and the call ends in exactly one outcome, a call of the
\* function or an error, with no invocation left.
C20_Terminates ==
    Generated
        => /\ AccumulatorSteps <= Len(decl.args) + 1
           /\ call # NoCall
                 => /\ ~Finished
                    /\ LET out == ExpandOnce(item.place, ts, call)
                       IN  (out.call # NoCall) # (out.result # NoResult)
                    /\ call.mac \in {FnName, InnerMacro}
                    /\ call.mac = FnName => steps = 0
                    /\ StateOf(call) <= Len(decl.args)
                    /\ prev.mac = InnerMacro => StateOf(call) = StateOf(prev) + 1
           /\ Finished
                 => /\ call = NoCall
                    /\ result.kind \in {"call", "error"}

\* The outcome is the generator's Unrecognized-named-argument error.
UnrecognizedError ==
    /\ result.kind = "error"
    /\ Len(result.msg) >= 3
    /\ result.msg[1] = "Unrecognized named argument - got value for argument '"

\* C21: the generated matchers are total: for every N >= 0 every call of the
\* public matcher with zero or more pairs, and every accumulator invocation
\* that follows from it, matches some branch, so the call ends in a call of
\* the renamed function or in one of the generator's two errors (missing
\* argument, unrecognized argument), never in the compiler's error for an
\* input that no branch matches.
C21_MatchersTotal ==
    /\ (Generated /\ call # NoCall)
          => LET branches == ts[CHOOSE i \in MacrosNamed(ts, call.mac) : TRUE].branches
             IN  /\ MacrosNamed(ts, call.mac) # {}
                 /\ FirstMatch(branches, call.input) # 0
    /\ (Generated /\ Finished)
          => \/ result.kind = "call" /\ result.fn = DunderName(FnName)
             \/ MissingError
             \/ UnrecognizedError

\* C22: every call that expands successfully ends in one call of the renamed
\* function with exactly N positional arguments, in which the value of each
\* pair of the call appears exactly once and the default expression of a
\* parameter appears only if the call does not name that parameter.
C22_OneCallEachValueOnce ==
    (Generated /\ Finished /\ result.kind = "call")
        => /\ result.fn = DunderName(FnName)
           /\ Len(result.args) = Len(decl.args)
           /\ \A j \in 1..Len(pairs) :
                 Cardinality({i \in 1..Len(result.args) : result.args[i] = ValExpr(j)}) = 1
           /\ \A i \in 1..Len(result.args) :
                 /\ result.args[i].tag = "default"
                       => result.args[i].name \notin Range(pairs)
                 /\ (result.args[i].tag = "assign" /\ result.args[i].of # "")
                       => result.args[i].of \notin Range(pairs)

====
